---- MODULE Spec2Model ----
(***************************************************************************)
(* Flush load balancer: backend registry, selection strategies, health     *)
(* and request-count bookkeeping, and the forwarding routes.               *)
(*                                                                         *)
(* Three builds of the balancer keep the same shape of state:              *)
(*   "express_v1"  src/load-balancer.js lines 1-441                        *)
(*   "express"     src/load-balancer.js lines 442-920                      *)
(*   "serverless"  src/api/_lib/load-balancer.js and its handlers          *)
(* The relay server ("relay", src/unnamed/part_000) serves the same routes  *)
(* without selection: it forwards to the developer a request names.        *)
(***************************************************************************)
EXTENDS Integers, Sequences, FiniteSets, Bags, TLC

VARIABLES
    variant,             \* which build is running (fixed at start)
    strategy,            \* LOAD_BALANCER_STRATEGY (fixed at start)
    developers,          \* the registry, in Object.keys order (fixed at start)
    roundRobinIndex,     \* let roundRobinIndex = 0
    requestCounts,       \* const requestCounts = {}
    healthStatus,        \* const healthStatus = {}
    pending,             \* forwards in flight: a bag of [developer, handler]
    last,                \* what the most recent step did and answered
    capacity,            \* how many forwards may be in flight at once (fixed at start)
    ceiling,             \* the request count up to which a backend is followed (fixed at start)
    defaultDeveloper,    \* DEFAULT_DEVELOPER of the relay server (fixed at start)
    triples,             \* the retry triples that inbound requests may carry (fixed at start)
    handled,             \* the de-duplication cache: triples seen within the window
    observe,             \* which history is being recorded (fixed at start)
    consecutiveFailures, \* history: transient failure reports in a row, per developer
    everFailed,          \* history: has a forward ended in a failure
    rrRun,               \* history: the run of round-robin selections over one eligible set
    stickyMemo           \* history: one remembered selection made with an affinity key

fixed == <<variant, strategy, developers, capacity, ceiling, defaultDeveloper, triples, observe>>

vars == <<variant, strategy, developers, roundRobinIndex, requestCounts, healthStatus,
          pending, last, capacity, ceiling, defaultDeveloper, triples, handled, observe,
          consecutiveFailures, everFailed, rrRun, stickyMemo>>

---------------------------------------------------------------------------
(* Bounds of the model *)

MaxInFlight == 1
MaxBody == 2
MaxCount == 1
MaxStreak == 3
MaxRun == 4
RandomGrain == 6

---------------------------------------------------------------------------
(* Values *)

Null == "null"

Services == {"slack_app", "slack_oauth", "google_sheets"}

Variants == {"express_v1", "express", "serverless"}

\* the relay server routes to the developer a request names, without selection
Relay == "relay"

\* a name no registry has
Stranger == "zoe"

\* process.env.DEFAULT_DEVELOPER || 'alice'
DefaultChoices == {"alice", "bob", Stranger}

\* the five documented names plus one the selector does not know
Strategies == {"round_robin", "least_connections", "random", "weighted", "sticky", "fastest"}

\* "v0=ab12" as char codes (x-slack-signature)
SignatureKey == <<118, 48, 61, 97, 98, 49, 50>>
\* "10.0.0.1" as char codes (x-forwarded-for)
ForwardedKey == <<49, 48, 46, 48, 46, 48, 46, 49>>
\* "::1" as char codes (req.ip)
IpKey == <<58, 58, 49>>

NoHeader == <<>>

\* (x-slack-signature, x-slack-request-timestamp, x-slack-retry-num) of a request
Triples == {<<"v0=ab12", "1700000000", "1">>, <<"v0=cd34", "1700000060", "1">>}

NoTriple == <<>>

\* the tokens request bodies are made of, and the bodies up to MaxBody tokens
BodyTokens == {" ", "1", "{", "}", "payload="}

Bodies == UNION {[1..n -> BodyTokens] : n \in 0..MaxBody}

\* without the bodies observed: one body that parses and one that does not
SampleBodies == {<<"1">>, <<"}">>}

SlackHeaders == {"x-slack-signature", "x-slack-request-timestamp"}

\* an HTTP request: its method, the Slack headers it has, its body
Message(method, headers, body) == [method |-> method, headers |-> headers, body |-> body]

NoMessage == Message(Null, {}, <<>>)

\* what a step keeps of a request: the triple it brought to the duplicate check with
\* the cache it met, the inbound request and the request sent to the backend
Wire(triple, cache) ==
    [triple |-> triple, window |-> cache, inbound |-> NoMessage, outbound |-> NoMessage]

NoWire == Wire(NoTriple, {})

Url(dev, service) == "https://" \o dev \o "-" \o service \o ".ngrok-free.app"

FullConfig(dev) == [s \in Services |-> Url(dev, s)]

\* fallback mapping used when no DEVELOPER_ variable is set
DefaultDevelopers ==
    << [name |-> "alice", config |-> FullConfig("alice")],
       [name |-> "bob", config |-> FullConfig("bob")],
       [name |-> "charlie", config |-> FullConfig("charlie")] >>

\* env: charlie listed first and without google_sheets; DEVELOPER_ALICE_SLACK_APP is set
\* to the empty string; david has no weight and serves slack_app only
MixedDevelopers ==
    << [name |-> "charlie",
        config |-> [s \in {"slack_app", "slack_oauth"} |-> Url("charlie", s)]],
       [name |-> "alice",
        config |-> [s \in {"slack_app", "slack_oauth"} |->
                      IF s = "slack_app" THEN "" ELSE Url("alice", s)]],
       [name |-> "david", config |-> [s \in {"slack_app"} |-> Url("david", s)]] >>

\* env: two developers; bob serves slack_app only
PairDevelopers ==
    << [name |-> "alice",
        config |-> [s \in {"slack_app", "slack_oauth"} |-> Url("alice", s)]],
       [name |-> "bob", config |-> [s \in {"slack_app"} |-> Url("bob", s)]] >>

Registries == {DefaultDevelopers, MixedDevelopers, PairDevelopers}

---------------------------------------------------------------------------
(* Registry and bookkeeping reads *)

\* Object.keys(developers)
Keys(devs) == [i \in 1..Len(devs) |-> devs[i].name]

Names(devs) == {devs[i].name : i \in 1..Len(devs)}

\* developers[dev]
ConfigOf(devs, dev) == (CHOOSE i \in 1..Len(devs) : devs[i].name = dev)

\* developers[dev][service] as a truth value: present and not the empty string
HasEndpoint(devs, dev, service) ==
    LET config == devs[ConfigOf(devs, dev)].config
    IN  service \in DOMAIN config /\ config[service] # ""

\* healthStatus[dev] !== 'unhealthy'
NotUnhealthy(dev) ==
    ~(dev \in DOMAIN healthStatus /\ healthStatus[dev] = "unhealthy")

\* (requestCounts[dev] || 0)
CountOf(dev) == IF dev \in DOMAIN requestCounts THEN requestCounts[dev] ELSE 0

\* mutant: the filter keeps a developer only when it is recorded as healthy
availableKnownHealthy(devs, service) ==
    LET Keep(dev) == /\ HasEndpoint(devs, dev, service)
                     /\ dev \in DOMAIN healthStatus
                     /\ healthStatus[dev] = "healthy"
    IN  SelectSeq(Keys(devs), Keep)

\* mutant: the filter forgets the health check
availableIgnoringHealth(devs, service) ==
    LET Keep(dev) == HasEndpoint(devs, dev, service)
    IN  SelectSeq(Keys(devs), Keep)

\* mutant: the filter forgets the endpoint check
availableIgnoringEndpoint(devs, service) ==
    LET Keep(dev) == NotUnhealthy(dev)
    IN  SelectSeq(Keys(devs), Keep)

\* mutant: the filter joins its two tests with || instead of &&
availableEither(devs, service) ==
    LET Keep(dev) == HasEndpoint(devs, dev, service) \/ NotUnhealthy(dev)
    IN  SelectSeq(Keys(devs), Keep)

\* the filter every strategy starts with
availableDevelopers(devs, service) ==
    LET Keep(dev) == HasEndpoint(devs, dev, service) /\ NotUnhealthy(dev)
    IN  SelectSeq(Keys(devs), Keep)

---------------------------------------------------------------------------
(* Selection strategies: each returns the developer chosen (or Null) and    *)
(* the value roundRobinIndex has afterwards.                               *)

Picked(dev, index) == [developer |-> dev, roundRobinIndex |-> index]

\* mutant: the cursor is reduced modulo the length but never advanced
roundRobinStuck(devs, service, index) ==
    LET avail == availableDevelopers(devs, service)
    IN  IF Len(avail) = 0
        THEN Picked(Null, index)
        ELSE Picked(avail[(index % Len(avail)) + 1], index % Len(avail))

\* mutant: the selection looks one place past the cursor
roundRobinSkipping(devs, service, index) ==
    LET avail == availableDevelopers(devs, service)
    IN  IF Len(avail) = 0
        THEN Picked(Null, index)
        ELSE Picked(avail[((index + 1) % Len(avail)) + 1], (index + 1) % Len(avail))

\* mutant: the cursor wraps at the size of the registry, not of the eligible list
roundRobinWide(devs, service, index) ==
    LET avail == availableDevelopers(devs, service)
    IN  IF Len(avail) = 0
        THEN Picked(Null, index)
        ELSE Picked(avail[(index % Len(avail)) + 1], (index + 1) % Len(devs))

roundRobin(devs, service, index) ==
    LET avail == availableDevelopers(devs, service)
    IN  IF Len(avail) = 0
        THEN Picked(Null, index)
        ELSE Picked(avail[(index % Len(avail)) + 1], (index + 1) % Len(avail))

\* mutant: the comparison is turned around, so the reduce keeps the busiest developer
RECURSIVE ReduceMax(_, _, _)
ReduceMax(avail, i, min) ==
    IF i > Len(avail)
    THEN min
    ELSE ReduceMax(avail, i + 1,
                   IF CountOf(avail[i]) > CountOf(min) THEN avail[i] ELSE min)

\* mutant: <= for <, so that among equal counts the reduce keeps the last developer
RECURSIVE ReduceMinLast(_, _, _)
ReduceMinLast(avail, i, min) ==
    IF i > Len(avail)
    THEN min
    ELSE ReduceMinLast(avail, i + 1,
                       IF CountOf(avail[i]) <= CountOf(min) THEN avail[i] ELSE min)

\* availableDevelopers.reduce((min, dev) => count(dev) < count(min) ? dev : min)
RECURSIVE ReduceMin(_, _, _)
ReduceMin(avail, i, min) ==
    IF i > Len(avail)
    THEN min
    ELSE ReduceMin(avail, i + 1,
                   IF CountOf(avail[i]) < CountOf(min) THEN avail[i] ELSE min)

leastConnections(devs, service, index) ==
    LET avail == availableDevelopers(devs, service)
    IN  IF Len(avail) = 0
        THEN Picked(Null, index)
        ELSE Picked(ReduceMin(avail, 2, avail[1]), index)

\* Math.floor(Math.random() * length), Math.random() being u / RandomGrain
random(devs, service, index, u) ==
    LET avail == availableDevelopers(devs, service)
    IN  IF Len(avail) = 0
        THEN Picked(Null, index)
        ELSE Picked(avail[((u * Len(avail)) \div RandomGrain) + 1], index)

\* mutant: a developer that the table does not list gets no share
WeightOfListed(dev) ==
    CASE dev = "alice" -> 3
      [] dev = "bob" -> 3
      [] dev = "charlie" -> 4
      [] OTHER -> 0

\* weights[dev] || 1
WeightOf(dev) ==
    CASE dev = "alice" -> 3
      [] dev = "bob" -> 3
      [] dev = "charlie" -> 4
      [] OTHER -> 1

RECURSIVE TotalWeight(_, _)
TotalWeight(avail, i) ==
    IF i > Len(avail) THEN 0 ELSE WeightOf(avail[i]) + TotalWeight(avail, i + 1)

\* the for loop: random -= weight; if (random <= 0) return dev  (scaled by RandomGrain)
RECURSIVE WeightedLoop(_, _, _)
WeightedLoop(avail, i, scaled) ==
    IF i > Len(avail)
    THEN avail[1]
    ELSE LET rest == scaled - (WeightOf(avail[i]) * RandomGrain)
         IN  IF rest <= 0 THEN avail[i] ELSE WeightedLoop(avail, i + 1, rest)

weighted(devs, service, index, u) ==
    LET avail == availableDevelopers(devs, service)
    IN  IF Len(avail) = 0
        THEN Picked(Null, index)
        ELSE Picked(WeightedLoop(avail, 1, u * TotalWeight(avail, 1)), index)

\* a = ((a << 5) - a) + charCode; return a & a   (32-bit two's complement)
HashStep(a, code) ==
    LET al == a % 65536
        ah == a \div 65536
        t == (31 * al) + code
        hi == ((31 * ah) + (t \div 65536)) % 65536
        signed == IF hi >= 32768 THEN hi - 65536 ELSE hi
    IN  (signed * 65536) + (t % 65536)

RECURSIVE HashFrom(_, _, _)
HashFrom(sessionId, i, a) ==
    IF i > Len(sessionId) THEN a ELSE HashFrom(sessionId, i + 1, HashStep(a, sessionId[i]))

Hash(sessionId) == HashFrom(sessionId, 1, 0)

\* Math.abs(hash) % length
AbsMod(hash, length) ==
    IF hash >= 0 THEN hash % length
    ELSE IF hash = (-2147483647) - 1 THEN ((2147483647 % length) + 1) % length
    ELSE (-hash) % length

\* mutant: a keyed selection moves the cursor as a round-robin selection does
stickyAdvancing(devs, service, index, sessionId) ==
    LET avail == availableDevelopers(devs, service)
    IN  IF Len(avail) = 0
        THEN Picked(Null, index)
        ELSE IF sessionId # NoHeader
        THEN Picked(avail[AbsMod(Hash(sessionId), Len(avail)) + 1], (index + 1) % Len(avail))
        ELSE roundRobin(devs, service, index)

\* mutant: the keyed branch is missing, every selection falls back to round robin
stickyIgnoringKey(devs, service, index, sessionId) == roundRobin(devs, service, index)

sticky(devs, service, index, sessionId) ==
    LET avail == availableDevelopers(devs, service)
    IN  IF Len(avail) = 0
        THEN Picked(Null, index)
        ELSE IF sessionId # NoHeader
        THEN Picked(avail[AbsMod(Hash(sessionId), Len(avail)) + 1], index)
        ELSE roundRobin(devs, service, index)

\* the switch of the Express server
selectDeveloper(devs, service, index, sessionId, u) ==
    CASE strategy = "round_robin" -> roundRobin(devs, service, index)
      [] strategy = "least_connections" -> leastConnections(devs, service, index)
      [] strategy = "random" -> random(devs, service, index, u)
      [] strategy = "weighted" -> weighted(devs, service, index, u)
      [] strategy = "sticky" -> sticky(devs, service, index, sessionId)
      [] OTHER -> roundRobin(devs, service, index)

\* mutant: the serverless switch has the sticky case of the Express server
selectDeveloperServerlessKeyed(devs, service, index, sessionId, u) ==
    CASE strategy = "round_robin" -> roundRobin(devs, service, index)
      [] strategy = "least_connections" -> leastConnections(devs, service, index)
      [] strategy = "random" -> random(devs, service, index, u)
      [] strategy = "sticky" -> sticky(devs, service, index, sessionId)
      [] OTHER -> roundRobin(devs, service, index)

\* the switch of the serverless library: three cases and the default
selectDeveloperServerless(devs, service, index, sessionId, u) ==
    CASE strategy = "round_robin" -> roundRobin(devs, service, index)
      [] strategy = "least_connections" -> leastConnections(devs, service, index)
      [] strategy = "random" -> random(devs, service, index, u)
      [] OTHER -> roundRobin(devs, service, index)

\* developerConfig[service] || null
getTargetUrl(devs, dev, service) ==
    IF dev \notin Names(devs) THEN Null
    ELSE IF HasEndpoint(devs, dev, service)
    THEN devs[ConfigOf(devs, dev)].config[service]
    ELSE Null

\* mutant: the handler does not stop when selectDeveloper returns null
AnswerUnguarded(dev, targetUrl) == IF targetUrl = Null THEN 502 ELSE 0

\* the early returns of a handler: 503 without a developer, 502 without a target URL,
\* otherwise (0) the request is forwarded
Answer(dev, targetUrl) ==
    IF dev = Null THEN 503 ELSE IF targetUrl = Null THEN 502 ELSE 0

---------------------------------------------------------------------------
(* Routes, inputs and the step record *)

ExpressRoutes == {"/slack/events", "/slack/interactions", "/slack/oauth", "/google-sheets/oauth"}

ServerlessRoutes == {"events", "interactions", "interactions_raw"}

RouteService(route) ==
    CASE route = "/slack/oauth" -> "slack_oauth"
      [] route = "/google-sheets/oauth" -> "google_sheets"
      [] OTHER -> "slack_app"

\* err.code / error.name of a transport failure
Errors == {"timeout", "reset", "refused"}

Transient(error) == error \in {"timeout", "reset"}

UpstreamStatuses == {200, 500}

\* Math.random() is drawn only by the random and weighted strategies
RandomDraws ==
    IF strategy = "random" \/ (strategy = "weighted" /\ variant # "serverless")
    THEN 0..(RandomGrain - 1)
    ELSE {0}

\* the headers feed sessionId, which only a sticky configuration passes on or records
AffinityHeaders(key) == IF strategy = "sticky" THEN {NoHeader, key} ELSE {NoHeader}

\* a || b on header values
Or(a, b) == IF a # NoHeader THEN a ELSE b

\* what a request to the relay server names: x-developer-id, ?dev=, x-slack-developer,
\* and the target URL the relay found for it
Named(header, query, slack, target) ==
    [header |-> header, query |-> query, slack |-> slack, target |-> target]

NoNamed == Named("", "", "", Null)

\* a || b on developer names (an absent header or parameter is falsy)
OrName(a, b) == IF a # "" THEN a ELSE b

\* the names a request to the relay may carry in a header or parameter
DeveloperIds == {""} \cup Names(developers) \cup {Stranger}

\* developers[dev][service] of the relay: undefined (Null) when the key is absent
ServiceOf(devs, dev, service) ==
    LET config == devs[ConfigOf(devs, dev)].config
    IN  IF service \in DOMAIN config THEN config[service] ELSE Null

\* defaultConfig ? defaultConfig[service] : null
DefaultTarget(devs, service, default) ==
    IF default \in Names(devs) THEN ServiceOf(devs, default, service) ELSE Null

\* mutant: an unknown developer or a missing service has no target
getTargetUrlStrict(devs, developer, service, default) ==
    IF developer \notin Names(devs) THEN Null
    ELSE IF ServiceOf(devs, developer, service) \in {Null, ""} THEN Null
    ELSE ServiceOf(devs, developer, service)

\* getTargetUrl of the relay server: the developer's URL, else the default developer's
getTargetUrlOrDefault(devs, developer, service, default) ==
    IF developer \notin Names(devs) THEN DefaultTarget(devs, service, default)
    ELSE IF ServiceOf(devs, developer, service) \in {Null, ""}
    THEN DefaultTarget(devs, service, default)
    ELSE ServiceOf(devs, developer, service)

\* a set of inputs that is followed only when bodies are observed
Observed(values, sample) == IF observe = "body" THEN values ELSE sample

\* the positions of a text that are not white space
Inked(text) == {i \in 1..Len(text) : text[i] # " "}

\* the text without leading and trailing white space
Trimmed(text) ==
    IF Inked(text) = {}
    THEN <<>>
    ELSE LET first == CHOOSE i \in Inked(text) : \A j \in Inked(text) : i <= j
             final == CHOOSE i \in Inked(text) : \A j \in Inked(text) : i >= j
         IN  SubSeq(text, first, final)

NotJson == [ok |-> FALSE, type |-> Null, digits |-> 0]

\* JSON.parse(text): a number (a run of digits) or an empty object, white space
\* allowed around the value and inside the braces; anything else throws
JSONparse(text) ==
    LET t == Trimmed(text)
    IN  IF t # <<>> /\ \A i \in 1..Len(t) : t[i] = "1"
        THEN [ok |-> TRUE, type |-> "number", digits |-> Len(t)]
        ELSE IF /\ Len(t) >= 2
                /\ t[1] = "{"
                /\ t[Len(t)] = "}"
                /\ \A i \in 2..(Len(t) - 1) : t[i] = " "
             THEN [ok |-> TRUE, type |-> "object", digits |-> 0]
             ELSE NotJson

\* JSON.stringify(value): the text of the value without white space
JSONstringify(value) ==
    IF value.type = "number" THEN [i \in 1..value.digits |-> "1"] ELSE <<"{", "}">>

\* new URLSearchParams(body).get('payload'), empty when the body lacks the field
payloadOf(body) == IF body # <<>> /\ body[1] = "payload=" THEN Tail(body) ELSE <<>>

\* the raw-body interactions handler: JSON first, then the payload field of a form
parseBody(body) ==
    IF JSONparse(body).ok
    THEN JSONparse(body)
    ELSE IF payloadOf(body) # <<>> THEN JSONparse(payloadOf(body)) ELSE NotJson

\* proxyRequest: the options of fetch for a request and its parsed body
fetchInit(req, jsonBody) ==
    Message(req.method, req.headers \cap SlackHeaders,
            IF req.method = "POST" THEN JSONstringify(jsonBody) ELSE <<>>)

\* the request the proxy middleware sends: the method and headers of the inbound
\* request; the body is req.rawBody when the raw parser kept it (second version),
\* otherwise what is left of the request stream after the JSON and form parsers
onProxyReq(req, kept, parsed) ==
    Message(req.method, req.headers,
            IF variant = "express" /\ kept /\ req.body # <<>>
            THEN req.body
            ELSE IF parsed THEN <<>> ELSE req.body)

\* the wire of a request that is answered without a forward
Unsent(wire) == [wire EXCEPT !.inbound = NoMessage, !.outbound = NoMessage]

\* the wire with the inbound request and the request sent, when bodies are observed
Carrying(wire, inbound, outbound) ==
    IF observe = "body"
    THEN [wire EXCEPT !.inbound = inbound, !.outbound = outbound]
    ELSE wire

\* the record of a step: the affinity key is kept when the configured strategy is sticky
Step(op, route, sessionId, dev, status, error) ==
    [op |-> op, route |-> route,
     sessionId |-> IF strategy = "sticky" THEN sessionId ELSE NoHeader,
     developer |-> dev, status |-> status, error |-> error, wire |-> NoWire,
     named |-> NoNamed]

\* the record of a step of a request that went through the duplicate check
StepOf(wire, op, route, sessionId, dev, status, error) ==
    [Step(op, route, sessionId, dev, status, error) EXCEPT !.wire = wire]

NoRun == [avail |-> <<>>, picks |-> <<>>]

NoMemo == [key |-> NoHeader, service |-> Null, avail |-> <<>>, developer |-> Null, index |-> 0]

\* does this selection run LoadBalancer.roundRobin?
RunsRoundRobin(sessionId) ==
    IF variant = "serverless"
    THEN strategy \notin {"least_connections", "random"}
    ELSE \/ strategy \notin {"least_connections", "random", "weighted", "sticky"}
         \/ strategy = "sticky" /\ sessionId = NoHeader

\* history of round-robin selections: the run continues while the eligible set is the same
NextRun(avail, index, dev) ==
    IF avail = <<>> THEN NoRun
    ELSE LET pick == [index |-> index, developer |-> dev]
             picks == IF rrRun.avail = avail THEN Append(rrRun.picks, pick) ELSE <<pick>>
         IN  [avail |-> avail,
              picks |-> IF Len(picks) > MaxRun THEN Tail(picks) ELSE picks]

\* history of keyed selections under a sticky configuration: the first one that the
\* run chooses to remember is kept, with the eligible list and the cursor it saw
NextMemo(sessionId, service, avail, dev, remember) ==
    IF /\ observe = "memo"
       /\ strategy = "sticky"
       /\ sessionId # NoHeader
       /\ dev # Null
       /\ remember
       /\ stickyMemo = NoMemo
    THEN [key |-> sessionId, service |-> service, avail |-> avail, developer |-> dev,
          index |-> roundRobinIndex]
    ELSE stickyMemo

\* history of failure reports: a transient one lengthens the streak, another one ends it
NextStreak(dev, error) ==
    [consecutiveFailures EXCEPT ![dev] =
        IF ~Transient(error) THEN 0 ELSE IF @ < MaxStreak THEN @ + 1 ELSE @]

\* history of failures: the end of a forward in a failure is noted
NextFailed == IF observe = "assigned" THEN TRUE ELSE everFailed

\* mutant: one forward in flight holds the router until it has ended
InFlightHolding == IF pending = EmptyBag THEN 0 ELSE capacity

InFlight == BagCardinality(pending)

Start ==
    /\ variant \in Variants \cup {Relay}
    /\ developers \in Registries
    /\ roundRobinIndex = 0
    /\ requestCounts = << >>
    /\ healthStatus = << >>
    /\ pending = EmptyBag
    /\ last = [op |-> "start", route |-> Null, sessionId |-> NoHeader, developer |-> Null,
               status |-> 0, error |-> Null, wire |-> NoWire, named |-> NoNamed]
    /\ handled = {}
    /\ consecutiveFailures = [d \in Names(developers) |-> 0]
    /\ everFailed = FALSE
    /\ rrRun = NoRun
    /\ stickyMemo = NoMemo

Init ==
    /\ Start
    /\ strategy \in Strategies
    /\ capacity = MaxInFlight
    /\ ceiling = MaxCount
    /\ defaultDeveloper = "alice"
    /\ triples = {}
    /\ observe = "none"

---------------------------------------------------------------------------
(* Express server: the four forwarding routes share one handler body *)

\* select, answer 503 / 502, or hand the request to the proxy
LoadBalance(route, sessionId, u, remember) ==
    LET service == RouteService(route)
        avail == availableDevelopers(developers, service)
        picked == selectDeveloper(developers, service, roundRobinIndex, sessionId, u)
        dev == picked.developer
        targetUrl == getTargetUrl(developers, dev, service)
        status == Answer(dev, targetUrl)
    IN  /\ InFlight < capacity
        /\ roundRobinIndex' = picked.roundRobinIndex
        /\ pending' = IF status = 0
                      THEN pending (+) SetToBag({[developer |-> dev, handler |-> "proxy"]})
                      ELSE pending
        /\ \E method \in Observed({"POST", "GET"}, {"POST"}),
              headers \in Observed(SUBSET SlackHeaders, {{}}),
              body \in Observed(Bodies, {<<>>}),
              kept \in Observed(BOOLEAN, {FALSE}), parsed \in Observed(BOOLEAN, {FALSE}) :
              LET req == Message(method, headers, body)
                  wire == Carrying(NoWire, req, onProxyReq(req, kept, parsed))
              IN  last' = StepOf(IF status = 0 THEN wire ELSE NoWire,
                                 "select", route, sessionId, dev, status, Null)
        /\ rrRun' = IF observe = "run" /\ RunsRoundRobin(sessionId)
                    THEN NextRun(avail, roundRobinIndex, dev)
                    ELSE rrRun
        /\ stickyMemo' = NextMemo(sessionId, service, avail, dev, remember)
        /\ UNCHANGED <<fixed, requestCounts, healthStatus, consecutiveFailures, everFailed, handled>>

\* a route of the relay server: name the developer, find the target, proxy or 502
RelayTo(route, header, query, slack) ==
    LET developer == OrName(header, OrName(query, OrName(slack, defaultDeveloper)))
        targetUrl == getTargetUrlOrDefault(developers, developer, RouteService(route),
                                           defaultDeveloper)
        status == IF targetUrl \in {Null, ""} THEN 502 ELSE 0
    IN  /\ InFlight < capacity
        /\ pending' = IF status = 0
                      THEN pending (+) SetToBag({[developer |-> developer,
                                                  handler |-> "proxy"]})
                      ELSE pending
        /\ last' = [Step("relay", route, NoHeader, developer, status, Null)
                       EXCEPT !.named = Named(header, query, slack, targetUrl)]
        /\ UNCHANGED <<fixed, roundRobinIndex, requestCounts, healthStatus,
                       consecutiveFailures, everFailed, rrRun, stickyMemo, handled>>

\* the routes of the relay: only the two Slack app routes read x-slack-developer
RelayRoute(route) ==
    \E header \in DeveloperIds, query \in DeveloperIds,
       slack \in (IF RouteService(route) = "slack_app" THEN DeveloperIds ELSE {""}) :
       RelayTo(route, header, query, slack)

\* the history may or may not remember a keyed sticky selection
Remembering ==
    IF observe = "memo" /\ strategy = "sticky" /\ stickyMemo = NoMemo THEN BOOLEAN ELSE {FALSE}

\* app.use('/slack/events', ...): sessionId = x-slack-signature || x-forwarded-for
SlackEvents ==
    /\ variant \in {"express_v1", "express", Relay}
    /\ IF variant = Relay
       THEN RelayRoute("/slack/events")
       ELSE \E signature \in AffinityHeaders(SignatureKey), forwarded \in AffinityHeaders(ForwardedKey),
                  u \in RandomDraws, remember \in Remembering :
                  LoadBalance("/slack/events", Or(signature, forwarded), u, remember)

\* app.use('/slack/interactions', ...)
SlackInteractions ==
    /\ variant \in {"express_v1", "express", Relay}
    /\ IF variant = Relay
       THEN RelayRoute("/slack/interactions")
       ELSE \E signature \in AffinityHeaders(SignatureKey), forwarded \in AffinityHeaders(ForwardedKey),
                  u \in RandomDraws, remember \in Remembering :
                  LoadBalance("/slack/interactions", Or(signature, forwarded), u, remember)

\* app.use('/slack/oauth', ...): sessionId = x-forwarded-for || req.ip
SlackOAuth ==
    /\ variant \in {"express_v1", "express", Relay}
    /\ IF variant = Relay
       THEN RelayRoute("/slack/oauth")
       ELSE \E forwarded \in AffinityHeaders(ForwardedKey), u \in RandomDraws, remember \in Remembering :
                  LoadBalance("/slack/oauth", Or(forwarded, IpKey), u, remember)

\* app.use('/google-sheets/oauth', ...)
GoogleSheetsOAuth ==
    /\ variant \in {"express_v1", "express", Relay}
    /\ IF variant = Relay
       THEN RelayRoute("/google-sheets/oauth")
       ELSE \E forwarded \in AffinityHeaders(ForwardedKey), u \in RandomDraws, remember \in Remembering :
                  LoadBalance("/google-sheets/oauth", Or(forwarded, IpKey), u, remember)

\* the count of dev can take one more report: it is below the ceiling, or the counts
\* are not followed beyond the ceiling (liveness: round robin does not read them)
Countable(dev) == CountOf(dev) < ceiling \/ observe = "live"

\* mutant: the write is lost when another forward to the same developer overlaps
IncrementedUnlessOverlap(dev) ==
    IF \E req \in BagToSet(pending) : req.developer = dev /\ CopiesIn(req, pending) >= 2
    THEN requestCounts
    ELSE [d \in (DOMAIN requestCounts) \cup {dev} |->
             IF d = dev THEN CountOf(dev) + 1 ELSE requestCounts[d]]

\* requestCounts[dev] = (requestCounts[dev] || 0) + 1
Incremented(dev) ==
    IF observe = "live" /\ CountOf(dev) >= ceiling
    THEN requestCounts
    ELSE [d \in (DOMAIN requestCounts) \cup {dev} |->
             IF d = dev THEN CountOf(dev) + 1 ELSE requestCounts[d]]

\* healthStatus[dev] = value
HealthSet(dev, value) ==
    [d \in (DOMAIN healthStatus) \cup {dev} |-> IF d = dev THEN value ELSE healthStatus[d]]

\* onProxyRes: the first version only counts, the second also marks healthy
onProxyRes(dev) ==
    /\ requestCounts' = IF variant = Relay THEN requestCounts ELSE Incremented(dev)
    /\ healthStatus' = IF variant = "express" THEN HealthSet(dev, "healthy") ELSE healthStatus

\* mutant: the failure is answered but not recorded
onErrorSilent(dev) == UNCHANGED <<healthStatus, requestCounts>>

\* mutant: a failure marks every backend that has a health entry
onErrorSweeping(dev) ==
    /\ healthStatus' = [d \in (DOMAIN healthStatus) \cup {dev} |-> "unhealthy"]
    /\ UNCHANGED requestCounts

\* onError: mark the selected developer unhealthy
onError(dev) ==
    /\ healthStatus' = IF variant = Relay THEN healthStatus ELSE HealthSet(dev, "unhealthy")
    /\ UNCHANGED requestCounts

\* the proxy got a response from the backend
ProxyRes ==
    /\ variant \in {"express_v1", "express", Relay}
    /\ \E req \in BagToSet(pending), statusCode \in UpstreamStatuses :
          /\ Countable(req.developer)
          /\ onProxyRes(req.developer)
          /\ pending' = pending (-) SetToBag({req})
          /\ last' = Step("success", "proxy", NoHeader, req.developer, statusCode, Null)
          /\ consecutiveFailures' = IF observe = "failures"
                                    THEN [consecutiveFailures EXCEPT ![req.developer] = 0]
                                    ELSE consecutiveFailures
    /\ UNCHANGED <<fixed, roundRobinIndex, everFailed, rrRun, stickyMemo, handled>>

\* mutant: a transient error leaves the forward in flight for another attempt
ProxyErrorRetrying ==
    /\ variant \in {"express_v1", "express"}
    /\ \E req \in BagToSet(pending), error \in Errors :
          /\ onError(req.developer)
          /\ pending' = IF Transient(error) THEN pending ELSE pending (-) SetToBag({req})
          /\ last' = Step("failure", "proxy", NoHeader, req.developer, 502, error)
          /\ consecutiveFailures' = IF observe = "failures"
                                    THEN NextStreak(req.developer, error)
                                    ELSE consecutiveFailures
    /\ everFailed' = NextFailed
    /\ UNCHANGED <<fixed, roundRobinIndex, rrRun, stickyMemo, handled>>

\* the proxy failed to reach the backend
ProxyError ==
    /\ variant \in {"express_v1", "express", Relay}
    /\ \E req \in BagToSet(pending), error \in Errors :
          /\ onError(req.developer)
          /\ pending' = pending (-) SetToBag({req})
          /\ last' = Step("failure", "proxy", NoHeader, req.developer, 502, error)
          /\ consecutiveFailures' = IF observe = "failures"
                                    THEN NextStreak(req.developer, error)
                                    ELSE consecutiveFailures
    /\ everFailed' = NextFailed
    /\ UNCHANGED <<fixed, roundRobinIndex, rrRun, stickyMemo, handled>>

\* mutant: the reset answers without touching healthStatus
ResetHealthSkipped ==
    /\ variant \in {"express_v1", "express"}
    /\ last' = Step("reset", "/reset-health", NoHeader, Null, 200, Null)
    /\ consecutiveFailures' = [d \in DOMAIN consecutiveFailures |-> 0]
    /\ UNCHANGED <<fixed, roundRobinIndex, requestCounts, healthStatus, pending, everFailed,
                   rrRun, stickyMemo, handled>>

\* mutant: the reset also clears the request counts
ResetHealthAndCounts ==
    /\ variant \in {"express_v1", "express"}
    /\ healthStatus' = [d \in DOMAIN healthStatus |-> "healthy"]
    /\ requestCounts' = << >>
    /\ last' = Step("reset", "/reset-health", NoHeader, Null, 200, Null)
    /\ consecutiveFailures' = [d \in DOMAIN consecutiveFailures |-> 0]
    /\ UNCHANGED <<fixed, roundRobinIndex, pending, everFailed, rrRun, stickyMemo, handled>>

\* app.post('/reset-health', ...): every key of healthStatus becomes 'healthy'
ResetHealth ==
    /\ variant \in {"express_v1", "express"}
    /\ healthStatus' = [d \in DOMAIN healthStatus |-> "healthy"]
    /\ last' = Step("reset", "/reset-health", NoHeader, Null, 200, Null)
    /\ consecutiveFailures' = [d \in DOMAIN consecutiveFailures |-> 0]
    /\ UNCHANGED <<fixed, roundRobinIndex, requestCounts, pending, everFailed, rrRun, stickyMemo,
                   handled>>

\* app.get('/health', ...): answers the registry, the counts and the health map
GetHealth ==
    /\ variant \in {"express_v1", "express", Relay}
    /\ last' = Step("inspect", "/health", NoHeader, Null, 200, Null)
    /\ UNCHANGED <<fixed, roundRobinIndex, requestCounts, healthStatus, pending,
                   consecutiveFailures, everFailed, rrRun, stickyMemo, handled>>

\* app.get('/load-balancer', ...) and the serverless api/load-balancer: the strategy,
\* the counts and the health map
GetLoadBalancer ==
    /\ variant \in Variants
    /\ last' = Step("inspect", "/load-balancer", NoHeader, Null, 200, Null)
    /\ UNCHANGED <<fixed, roundRobinIndex, requestCounts, healthStatus, pending,
                   consecutiveFailures, everFailed, rrRun, stickyMemo, handled>>

---------------------------------------------------------------------------
(* Serverless functions: api/slack/events and api/slack/interactions *)

\* updateStats(developer, success): counts every call, success or not
updateStats(dev, success) ==
    /\ requestCounts' = Incremented(dev)
    /\ healthStatus' = HealthSet(dev, IF success THEN "healthy" ELSE "unhealthy")

\* the part of a handler from selectDeveloper to the call of proxyRequest
Forward(handler, sessionId, wire, u, remember) ==
    LET avail == availableDevelopers(developers, "slack_app")
        picked == selectDeveloperServerless(developers, "slack_app", roundRobinIndex,
                                            sessionId, u)
        dev == picked.developer
        targetUrl == getTargetUrl(developers, dev, "slack_app")
        status == Answer(dev, targetUrl)
    IN  /\ InFlight < capacity
        /\ roundRobinIndex' = picked.roundRobinIndex
        /\ pending' = IF status = 0
                      THEN pending (+) SetToBag({[developer |-> dev, handler |-> handler]})
                      ELSE pending
        /\ last' = StepOf(IF status = 0 THEN wire ELSE Unsent(wire),
                          "select", handler, sessionId, dev, status, Null)
        /\ rrRun' = IF observe = "run" /\ RunsRoundRobin(sessionId)
                    THEN NextRun(avail, roundRobinIndex, dev)
                    ELSE rrRun
        /\ stickyMemo' = NextMemo(sessionId, "slack_app", avail, dev, remember)
        /\ UNCHANGED <<fixed, requestCounts, healthStatus, consecutiveFailures, everFailed>>

\* a request the handler answers before it selects: 405 when the method is not POST,
\* 500 (events) or 400 (interactions) when the raw body does not parse
Refuse(handler, wire, status) ==
    /\ last' = StepOf(wire, "refuse", handler, NoHeader, Null, status, Null)
    /\ UNCHANGED <<fixed, roundRobinIndex, requestCounts, healthStatus, pending,
                   consecutiveFailures, everFailed, rrRun, stickyMemo>>

\* handler of api/slack/events: raw body, selectDeveloper('slack_app')
ServerlessEvents ==
    /\ variant = "serverless"
    /\ \/ Refuse("events", NoWire, 405)
       \/ \E headers \in Observed(SUBSET SlackHeaders, {{}}),
             body \in Observed(Bodies, SampleBodies) :
             LET req == Message("POST", headers, body)
                 jsonBody == JSONparse(body)
             IN  IF jsonBody.ok
                 THEN \E u \in RandomDraws :
                         Forward("events", NoHeader,
                                 Carrying(NoWire, req, fetchInit(req, jsonBody)), u, FALSE)
                 ELSE Refuse("events", NoWire, 500)
    /\ UNCHANGED handled

\* handler of api/slack/interactions, parsed body: selectDeveloper('slack_app', sessionId)
ServerlessInteractions ==
    /\ variant = "serverless"
    /\ UNCHANGED handled
    /\ \/ Refuse("interactions", NoWire, 405)
       \/ \E signature \in AffinityHeaders(SignatureKey),
             forwarded \in AffinityHeaders(ForwardedKey), u \in RandomDraws,
             remember \in Remembering,
             headers \in Observed(SUBSET SlackHeaders, {{}}),
             body \in {b \in Observed(Bodies, SampleBodies) : JSONparse(b).ok} :
             LET req == Message("POST", headers, body)
             IN  Forward("interactions", Or(signature, forwarded),
                         Carrying(NoWire, req, fetchInit(req, JSONparse(body))), u, remember)

\* isDuplicateRequest(req): the request carries a triple that is in the cache
isDuplicateRequest(triple, cache) == triple # NoTriple /\ triple \in cache

\* the cache after a request that was not a duplicate
Remembered(triple, cache) == IF triple = NoTriple THEN cache ELSE cache \cup {triple}

\* return res.status(200).json({ message: 'OK', cached: true })
Duplicate(wire) ==
    /\ last' = StepOf(wire, "duplicate", "interactions_raw", NoHeader, Null, 200, Null)
    /\ UNCHANGED <<fixed, roundRobinIndex, requestCounts, healthStatus, pending,
                   consecutiveFailures, everFailed, rrRun, stickyMemo>>

\* mutant: the handler does not ask isDuplicateRequest
ServerlessInteractionsRawUnchecked ==
    /\ variant = "serverless"
    /\ \/ Refuse("interactions_raw", NoWire, 405) /\ UNCHANGED handled
       \/ \E triple \in triples \cup {NoTriple}, expired \in SUBSET handled,
             headers \in Observed(SUBSET SlackHeaders, {{}}),
             body \in Observed(Bodies, SampleBodies) :
             LET cache == handled \ expired
                 wire == Wire(triple, cache)
                 req == Message("POST", headers, body)
                 jsonBody == parseBody(body)
             IN  /\ handled' = Remembered(triple, cache)
                 /\ IF jsonBody.ok
                    THEN \E u \in RandomDraws :
                            Forward("interactions_raw", NoHeader,
                                    Carrying(wire, req, fetchInit(req, jsonBody)), u, FALSE)
                    ELSE Refuse("interactions_raw", wire, 400)

\* handler of api/slack/interactions, raw body: the duplicate check, then JSON or form
\* payload, no sessionId; the entries of the cache whose window has passed are gone
ServerlessInteractionsRaw ==
    /\ variant = "serverless"
    /\ \/ Refuse("interactions_raw", NoWire, 405) /\ UNCHANGED handled
       \/ \E triple \in triples \cup {NoTriple}, expired \in SUBSET handled,
             headers \in Observed(SUBSET SlackHeaders, {{}}),
             body \in Observed(Bodies, SampleBodies) :
             LET cache == handled \ expired
                 wire == Wire(triple, cache)
                 req == Message("POST", headers, body)
                 jsonBody == parseBody(body)
             IN  IF isDuplicateRequest(triple, cache)
                 THEN Duplicate(wire) /\ handled' = cache
                 ELSE /\ handled' = Remembered(triple, cache)
                      /\ IF jsonBody.ok
                         THEN \E u \in RandomDraws :
                                 Forward("interactions_raw", NoHeader,
                                         Carrying(wire, req, fetchInit(req, jsonBody)),
                                         u, FALSE)
                         ELSE Refuse("interactions_raw", wire, 400)

\* catch (proxyError): only the parsed-body interactions handler calls updateStats(dev, false)
Caught(req, status, error) ==
    /\ IF req.handler = "interactions"
       THEN updateStats(req.developer, FALSE)
       ELSE UNCHANGED <<requestCounts, healthStatus>>
    /\ last' = Step("failure", req.handler, NoHeader, req.developer, status, error)
    /\ consecutiveFailures' = IF observe = "failures" /\ req.handler = "interactions"
                              THEN NextStreak(req.developer, error)
                              ELSE consecutiveFailures
    /\ everFailed' = NextFailed

\* proxyRequest: fetch resolved; response.json() throws on a body that is not JSON
FetchResolved ==
    /\ variant = "serverless"
    /\ \E req \in BagToSet(pending), statusCode \in UpstreamStatuses, json \in BOOLEAN :
          /\ (json \/ req.handler = "interactions") => Countable(req.developer)
          /\ pending' = pending (-) SetToBag({req})
          /\ IF json
             THEN /\ updateStats(req.developer, TRUE)
                  /\ last' = Step("success", req.handler, NoHeader, req.developer,
                                  statusCode, Null)
                  /\ consecutiveFailures' =
                        IF observe = "failures"
                        THEN [consecutiveFailures EXCEPT ![req.developer] = 0]
                        ELSE consecutiveFailures
                  /\ UNCHANGED everFailed
             ELSE Caught(req, 502, "parse")
    /\ UNCHANGED <<fixed, roundRobinIndex, rrRun, stickyMemo, handled>>

\* proxyRequest: fetch rejected; TimeoutError gives 504, anything else 502
FetchRejected ==
    /\ variant = "serverless"
    /\ \E req \in BagToSet(pending), error \in Errors :
          /\ req.handler = "interactions" => Countable(req.developer)
          /\ pending' = pending (-) SetToBag({req})
          /\ Caught(req, IF error = "timeout" THEN 504 ELSE 502, error)
    /\ UNCHANGED <<fixed, roundRobinIndex, rrRun, stickyMemo, handled>>

Next ==
    \/ SlackEvents
    \/ SlackInteractions
    \/ SlackOAuth
    \/ GoogleSheetsOAuth
    \/ ProxyRes
    \/ ProxyError
    \/ ResetHealth
    \/ GetHealth
    \/ GetLoadBalancer
    \/ ServerlessEvents
    \/ ServerlessInteractions
    \/ ServerlessInteractionsRaw
    \/ FetchResolved
    \/ FetchRejected

Spec == Init /\ [][Next]_vars

---------------------------------------------------------------------------
(* Specifications with a narrower start, for the properties of one part *)

DocumentedStrategies == Strategies \ {"fastest"}

\* selection under the five documented strategies, over the mixed registry
SelectInit ==
    /\ Start
    /\ variant \in {"express", "serverless"}
    /\ strategy \in DocumentedStrategies
    /\ developers = MixedDevelopers
    /\ capacity = MaxInFlight
    /\ ceiling = MaxCount
    /\ defaultDeveloper = "alice"
    /\ triples = {}
    /\ observe = "none"

SelectSpec == SelectInit /\ [][Next]_vars

\* the Express server over the default registry, the serverless functions over the mixed one
TwoDeployments ==
    {<<"express", DefaultDevelopers>>, <<"serverless", MixedDevelopers>>}

\* least-connections selections
LeastInit ==
    /\ Start
    /\ variant \in Variants
    /\ <<variant, developers>> \in TwoDeployments \cup {<<"express", MixedDevelopers>>}
    /\ strategy = "least_connections"
    /\ capacity = MaxInFlight
    /\ ceiling = MaxCount
    /\ defaultDeveloper = "alice"
    /\ triples = {}
    /\ observe = "none"

LeastSpec == LeastInit /\ [][Next]_vars

\* sticky selections with one remembered keyed selection
StickyInit ==
    /\ Start
    /\ variant \in {"express", "serverless"}
    /\ developers = PairDevelopers
    /\ strategy = "sticky"
    /\ capacity = MaxInFlight
    /\ ceiling = MaxCount
    /\ defaultDeveloper = "alice"
    /\ triples = {}
    /\ observe = "memo"

StickySpec == StickyInit /\ [][Next]_vars

\* forwards that fail and succeed, with the streak of failure reports of each backend;
\* enough requests in flight for three of them to fail in a row on one backend
HealthInit ==
    /\ Start
    /\ variant \in Variants
    /\ developers = PairDevelopers
    /\ strategy = "round_robin"
    /\ capacity = MaxInFlight + 2
    /\ ceiling = MaxCount
    /\ defaultDeveloper = "alice"
    /\ triples = {}
    /\ observe = "failures"

HealthSpec == HealthInit /\ [][Next]_vars

\* overlapping forwards: two in flight, and counts followed one step further
ConcurrentInit ==
    /\ Start
    /\ variant \in Variants
    /\ developers = PairDevelopers
    /\ strategy = "round_robin"
    /\ capacity = MaxInFlight + 1
    /\ ceiling = MaxCount + 1
    /\ defaultDeveloper = "alice"
    /\ triples = {}
    /\ observe = "none"

ConcurrentSpec == ConcurrentInit /\ [][Next]_vars

\* requests with their bodies, and the requests sent for them
BodyInit ==
    /\ Start
    /\ variant \in Variants
    /\ developers = PairDevelopers
    /\ strategy = "round_robin"
    /\ capacity = MaxInFlight
    /\ ceiling = MaxCount
    /\ defaultDeveloper = "alice"
    /\ triples = {}
    /\ observe = "body"

BodySpec == BodyInit /\ [][Next]_vars

\* the relay server next to the load balancers
RelayInit ==
    /\ Start
    /\ variant \in {Relay, "express", "serverless"}
    /\ developers = PairDevelopers
    /\ strategy = "round_robin"
    /\ capacity = MaxInFlight
    /\ ceiling = MaxCount
    /\ defaultDeveloper \in (IF variant = Relay THEN DefaultChoices ELSE {"alice"})
    /\ triples = {}
    /\ observe = "none"

RelaySpec == RelayInit /\ [][Next]_vars

\* round-robin selections for services whose eligible sets differ in size
CursorInit ==
    /\ Start
    /\ variant \in Variants
    /\ developers = PairDevelopers
    /\ strategy = "round_robin"
    /\ capacity = MaxInFlight
    /\ ceiling = MaxCount
    /\ defaultDeveloper = "alice"
    /\ triples = {}
    /\ observe = "run"

CursorSpec == CursorInit /\ [][Next]_vars

\* every strategy, with failures and resets
FrameInit ==
    /\ Start
    /\ variant \in Variants
    /\ developers = PairDevelopers
    /\ strategy \in Strategies
    /\ capacity = MaxInFlight
    /\ ceiling = MaxCount
    /\ defaultDeveloper = "alice"
    /\ triples = {}
    /\ observe = "none"

FrameSpec == FrameInit /\ [][Next]_vars

\* weighted selections, over registries with and without unweighted backends
WeightedInit ==
    /\ Start
    /\ <<variant, developers>> \in TwoDeployments \cup {<<"express", MixedDevelopers>>}
    /\ strategy = "weighted"
    /\ capacity = MaxInFlight
    /\ ceiling = MaxCount
    /\ defaultDeveloper = "alice"
    /\ triples = {}
    /\ observe = "none"

WeightedSpec == WeightedInit /\ [][Next]_vars

\* requests that repeat retry triples
DedupInit ==
    /\ Start
    /\ variant \in {"express", "serverless"}
    /\ developers = PairDevelopers
    /\ strategy = "round_robin"
    /\ capacity = MaxInFlight
    /\ ceiling = MaxCount
    /\ defaultDeveloper = "alice"
    /\ triples = Triples
    /\ observe = "none"

DedupSpec == DedupInit /\ [][Next]_vars

\* round-robin selections without end: the counts are followed up to the ceiling only
LiveInit ==
    /\ Start
    /\ variant \in Variants
    /\ developers = PairDevelopers
    /\ strategy = "round_robin"
    /\ capacity = MaxInFlight
    /\ ceiling = MaxCount
    /\ defaultDeveloper = "alice"
    /\ triples = {}
    /\ observe = "live"

\* the backends of the registry of LiveInit
LiveNames == Names(PairDevelopers)

\* the handlers that put forwards in flight
Handlers == {"proxy"} \cup ServerlessRoutes

\* mutant: no timeout is set: nothing obliges a forward without an answer to end
ExpiresNever(dev, handler) == FALSE

\* the forward of one handler to one backend ends without an answer of the backend:
\* the connection fails or the timeout of the attempt (timeout / proxyTimeout of the
\* proxy, AbortSignal.timeout of fetch) expires
Expires(dev, handler) ==
    /\ ProxyError \/ FetchRejected
    /\ [developer |-> dev, handler |-> handler] \in BagToSet(pending)
    /\ last'.op = "failure"
    /\ last'.developer = dev
    /\ last'.route = handler

\* every forward in flight has its own timer
LiveSpec ==
    /\ LiveInit
    /\ [][Next]_vars
    /\ \A dev \in LiveNames, handler \in Handlers : WF_vars(Expires(dev, handler))

\* least-connections selections with overlapping forwards and the note of a failure
BalanceInit ==
    /\ Start
    /\ variant \in Variants
    /\ developers = PairDevelopers
    /\ strategy = "least_connections"
    /\ capacity = MaxInFlight + 1
    /\ ceiling = MaxCount + 1
    /\ defaultDeveloper = "alice"
    /\ triples = {}
    /\ observe = "assigned"

BalanceSpec == BalanceInit /\ [][Next]_vars

\* round-robin selections with their history
RoundRobinInit ==
    /\ Start
    /\ variant \in Variants
    /\ <<variant, developers>> \in TwoDeployments
    /\ strategy = "round_robin"
    /\ capacity = MaxInFlight
    /\ ceiling = MaxCount
    /\ defaultDeveloper = "alice"
    /\ triples = {}
    /\ observe = "run"

RoundRobinSpec == RoundRobinInit /\ [][Next]_vars

---------------------------------------------------------------------------
(* Vocabulary of the properties, written from the registry and the maps *)

Unhealthy(d) == d \in DOMAIN healthStatus /\ healthStatus[d] = "unhealthy"

Configured(d, service) ==
    \E i \in 1..Len(developers) :
        /\ developers[i].name = d
        /\ service \in DOMAIN developers[i].config
        /\ developers[i].config[service] # ""

\* the eligible set E of a service
EligibleSet(service) ==
    {d \in Names(developers) : Configured(d, service) /\ ~Unhealthy(d)}

Selected == last.op = "select" /\ last.developer # Null

LastService == RouteService(last.route)

---------------------------------------------------------------------------
(* C1: a selection, under any strategy and after any history of forwards,  *)
(* failures and resets, never returns a backend that is marked unhealthy   *)
(* at the moment of the selection.                                         *)
C1_NeverSelectsUnhealthy == Selected => ~Unhealthy(last.developer)

\* a backend was returned while another one, configured for the service, was unhealthy
C1_Witness ==
    /\ Selected
    /\ \E d \in Names(developers) : Configured(d, LastService) /\ Unhealthy(d)

(* C2: a backend with no configured endpoint for service S is never        *)
(* returned by a selection for S, whatever its health, the cursor and the  *)
(* request counts.                                                         *)
C2_NeverSelectsUnconfigured == Selected => Configured(last.developer, LastService)

\* a backend was returned while a healthy one without an endpoint for the service exists
C2_Witness ==
    /\ Selected
    /\ \E d \in Names(developers) : ~Configured(d, LastService) /\ ~Unhealthy(d)

(* C3: when the eligible set of the requested service is empty, the        *)
(* selection returns none (the route answers 503) under every strategy.    *)
C3_EmptySetGivesNone ==
    (last.op = "select" /\ EligibleSet(LastService) = {})
        => (last.developer = Null /\ last.status = 503 /\ roundRobinIndex \in Nat)

\* none was returned for a service whose configured backends are all unhealthy
C3_Witness ==
    /\ last.op = "select"
    /\ last.developer = Null
    /\ \E d \in Names(developers) : Configured(d, LastService)
    /\ \A d \in Names(developers) : Configured(d, LastService) => Unhealthy(d)

---------------------------------------------------------------------------
(* The run of consecutive round-robin selections over one eligible set *)

RunLength == Len(rrRun.picks)

RunDeveloper(j) == rrRun.picks[j].developer

RunSet == {rrRun.avail[i] : i \in 1..Len(rrRun.avail)}

\* position of a backend in the registry's insertion order
Position(d) == CHOOSE i \in 1..Len(developers) : developers[i].name = d

First(S) == CHOOSE d \in S : \A e \in S : Position(d) <= Position(e)

\* the member of S that follows d in the registry's order, wrapping around
Successor(d, S) ==
    LET later == {e \in S : Position(e) > Position(d)}
    IN  IF later # {} THEN First(later) ELSE First(S)

(* C4: under round_robin, while the eligible set E stays the same, the     *)
(* selections follow E's iteration order cyclically, so any |E| consecutive *)
(* selections return every member of E exactly once; with A, B, C eligible *)
(* and the cursor at 0, four selections return A, B, C, A.                 *)
C4_RoundRobinVisitsEachOnce ==
    LET n == Cardinality(RunSet)
    IN  /\ \A j \in 1..RunLength : RunDeveloper(j) \in RunSet
        /\ \A j \in 1..(RunLength - 1) :
              RunDeveloper(j + 1) = Successor(RunDeveloper(j), RunSet)
        /\ \A i \in 1..(RunLength - n + 1) :
              n > 0 => {RunDeveloper(j) : j \in i..(i + n - 1)} = RunSet
        /\ (RunLength = 4 /\ n = 3 /\ rrRun.picks[1].index = 0)
              => /\ RunDeveloper(1) = First(RunSet)
                 /\ RunDeveloper(2) = Successor(First(RunSet), RunSet)
                 /\ RunDeveloper(3) = Successor(RunDeveloper(2), RunSet)
                 /\ RunDeveloper(4) = First(RunSet)
        /\ (Selected /\ RunLength > 0) => RunSet = EligibleSet(LastService)

\* four selections in a row over three eligible backends, starting with the cursor at 0
C4_Witness ==
    /\ RunLength = 4
    /\ Cardinality(RunSet) = 3
    /\ rrRun.picks[1].index = 0
    /\ RunDeveloper(4) = RunDeveloper(1)

---------------------------------------------------------------------------
(* Least connections *)

\* RequestCount of a backend: one that has no recorded count counts as 0
Requests(d) == IF d \in DOMAIN requestCounts THEN requestCounts[d] ELSE 0

LeastSelected == Selected /\ strategy = "least_connections"

Quietest(S) == {d \in S : \A e \in S : Requests(d) <= Requests(e)}

(* C5: under least_connections the backend returned has a RequestCount no  *)
(* greater than that of any other eligible backend at the time of the call. *)
C5_LeastIsMinimal ==
    LeastSelected =>
        \A e \in EligibleSet(LastService) : Requests(last.developer) <= Requests(e)

\* a backend was returned while another eligible backend had served more requests
C5_Witness ==
    /\ LeastSelected
    /\ \E e \in EligibleSet(LastService) : Requests(e) > Requests(last.developer)

(* C6: under least_connections, among the eligible backends that share the *)
(* minimum RequestCount the first in E's iteration order is returned (with *)
(* counts A > B = C and order A, B, C the result is B).                    *)
C6_LeastTieFirst ==
    LeastSelected => last.developer = First(Quietest(EligibleSet(LastService)))

\* B returned: A, first in order, has served more, and B and C tie on the minimum
C6_Witness ==
    /\ LeastSelected
    /\ Cardinality(Quietest(EligibleSet(LastService))) >= 2
    /\ First(EligibleSet(LastService)) \notin Quietest(EligibleSet(LastService))
    /\ last.developer # First(EligibleSet(LastService))

---------------------------------------------------------------------------
(* Sticky sessions *)

MemoSet == {stickyMemo.avail[i] : i \in 1..Len(stickyMemo.avail)}

\* the step is a selection by the sticky strategy with the remembered key, for the
\* remembered service, over the remembered eligible set
RepeatsMemo(step) ==
    /\ variant # "serverless"
    /\ strategy = "sticky"
    /\ step.op = "select"
    /\ stickyMemo # NoMemo
    /\ step.sessionId = stickyMemo.key
    /\ RouteService(step.route) = stickyMemo.service
    /\ EligibleSet(stickyMemo.service) = MemoSet

(* C7: under the sticky strategy (the Express selector implements it; the  *)
(* serverless selector has no such case), two selections for the same      *)
(* service with the same non-empty affinity key return the same backend    *)
(* whenever the eligible set is the same at both calls, whatever the       *)
(* cursor, the counts and the selections made in between.                  *)
C7_StickySameKeySameBackend ==
    [][RepeatsMemo(last') => last'.developer = stickyMemo.developer]_vars

\* a later selection repeats the remembered one after the cursor has moved
C7_Witness ==
    /\ RepeatsMemo(last)
    /\ last.developer = stickyMemo.developer
    /\ roundRobinIndex # stickyMemo.index

---------------------------------------------------------------------------
(* Health transitions *)

\* transient failures reported for d since its last success report or reset
Streak(d) == IF d \in DOMAIN consecutiveFailures THEN consecutiveFailures[d] ELSE 0

EligibleSomewhere(d) == \E service \in Services : d \in EligibleSet(service)

C9_ThreeFailuresExclude ==
    [][\A d \in Names(developers) :
          Streak(d) >= 3 =>
              /\ Unhealthy(d)
              /\ last'.op = "select" => last'.developer # d]_vars

\* a selection for a service of the backend, made after its third failure in a row
C9_Witness ==
    \E d \in Names(developers) :
        /\ Streak(d) >= 3
        /\ last.op = "select"
        /\ Configured(d, LastService)
        /\ last.developer # d

(* C10: a single successful forward reported for a backend, whatever state *)
(* the backend is in, leaves it healthy with its failure streak at 0, and  *)
(* so eligible for every service it has an endpoint for.                   *)
C10_SuccessRestoresHealth ==
    last.op = "success" =>
        /\ ~Unhealthy(last.developer)
        /\ Streak(last.developer) = 0
        /\ \A service \in Services :
              Configured(last.developer, service) =>
                  last.developer \in EligibleSet(service)

---------------------------------------------------------------------------
(* Outcomes of a forward *)

\* the forward that the step recorded in `step' has ended
Ended(step) == [developer |-> step.developer, handler |-> IF variant = "serverless"
                                                          THEN step.route ELSE "proxy"]

\* the step from the unprimed to the primed state ends one forward and starts none
EndsForward ==
    /\ CopiesIn(Ended(last'), pending') = CopiesIn(Ended(last'), pending) - 1
    /\ BagCardinality(pending') = BagCardinality(pending) - 1

(* C11: a non-transient forward failure (connection refused) marks the     *)
(* selected backend unhealthy immediately, whatever its streak of earlier  *)
(* failures, is not retried, and is answered with status 502.              *)
C11_RefusedMarksUnhealthy ==
    [][(last'.op = "failure" /\ last'.error = "refused") =>
          /\ \A d \in Names(developers) : d = last'.developer => Unhealthy(d)'
          /\ EndsForward
          /\ last'.status = 502]_vars

\* the backend was reached and sent a response (whose body may fail to parse)
Answered(step) == step.op = "success" \/ (step.op = "failure" /\ step.error = "parse")

(* C12: when the backend is reached and answers with any status code, the  *)
(* forward counts as a success: the response is relayed with the upstream  *)
(* status, the backend is reported healthy, and its health is never        *)
(* degraded because of the upstream status or body.                        *)
C12_AnswerCountsAsSuccess ==
    Answered(last) =>
        /\ last.op = "success"
        /\ last.status \in UpstreamStatuses
        /\ ~Unhealthy(last.developer)

(* C13: when selection returns none, the router answers 503 and stops: no  *)
(* outbound forward is attempted and neither the health state nor the      *)
(* request count of any backend changes.                                   *)
C13_NoneAnswers503AndStops ==
    [][(last'.op = "select" /\ last'.developer = Null) =>
          /\ last'.status = 503
          /\ pending' = pending
          /\ healthStatus' = healthStatus
          /\ requestCounts' = requestCounts]_vars

\* a selection answered 503 while there is bookkeeping that it could have changed
C13_Witness ==
    /\ last.op = "select"
    /\ last.developer = Null
    /\ last.status = 503
    /\ \E d \in Names(developers) : CountOf(d) >= 1
    /\ \E d \in Names(developers) : Unhealthy(d)

(* C14: every forward that ends in a transport failure (timeout, reset,    *)
(* refused) is reported for the selected backend, on every forwarding      *)
(* route: it lengthens the backend's failure streak or marks the backend   *)
(* unhealthy, and never leaves its health bookkeeping untouched.           *)
C14_EveryFailureIsReported ==
    (last.op = "failure" /\ last.error \in Errors) =>
        Unhealthy(last.developer) \/ Streak(last.developer) >= 1

---------------------------------------------------------------------------
(* Request counts *)

\* the step from the unprimed to the primed state reports a success for d
SucceedsFor(d) == last'.op = "success" /\ last'.developer = d

(* C15: the request count of a backend is incremented by exactly one on    *)
(* each successful forward to it and on nothing else: a failed forward, a  *)
(* selection, a 503 answer and a health reset leave every count unchanged. *)
C15_CountsOnlySuccesses ==
    [][\A d \in Names(developers) :
          CountOf(d)' = CountOf(d) + (IF SucceedsFor(d) THEN 1 ELSE 0)]_vars

(* C16: the request count of a backend never decreases from one state to   *)
(* the next: no operation of the running process, POST /reset-health       *)
(* included, lowers or clears it.                                          *)
C16_CountNeverDecreases ==
    [][\A d \in Names(developers) : CountOf(d)' >= CountOf(d)]_vars

\* health has just been reset while a backend has a count that could have been cleared
C16_Witness ==
    /\ last.op = "reset"
    /\ \E d \in Names(developers) : CountOf(d) >= 1

---------------------------------------------------------------------------
(* Attempts of a forward *)

---------------------------------------------------------------------------
(* Status of a failed forward *)

(* C18: a failed forward is answered with a status determined by the       *)
(* failure class: deadline exceeded gives 504, a connection error (reset,  *)
(* refused) gives 502, any other failure gives 500.                        *)
C18_StatusFollowsFailureClass ==
    last.op = "failure" =>
        last.status = CASE last.error = "timeout" -> 504
                        [] last.error \in {"reset", "refused"} -> 502
                        [] OTHER -> 500

---------------------------------------------------------------------------
(* Health reset *)

(* C19: POST /reset-health leaves every known backend healthy, so that     *)
(* immediately afterwards every backend with an endpoint for a service is  *)
(* eligible for it, and it changes neither any request count nor the       *)
(* rotation cursor.                                                        *)
C19_ResetMakesAllEligible ==
    [][last'.op = "reset" =>
          /\ \A d \in Names(developers) : ~Unhealthy(d)'
          /\ \A service \in Services, d \in Names(developers) :
                Configured(d, service) => d \in EligibleSet(service)'
          /\ requestCounts' = requestCounts
          /\ roundRobinIndex' = roundRobinIndex]_vars

\* a reset made with health entries, counts and a moved cursor in place
C19_Witness ==
    /\ last.op = "reset"
    /\ DOMAIN healthStatus # {}
    /\ \A d \in DOMAIN healthStatus : healthStatus[d] = "healthy"
    /\ \E d \in Names(developers) : CountOf(d) >= 1
    /\ roundRobinIndex # 0

---------------------------------------------------------------------------
(* Updates of the shared counters and cursor under overlapping requests *)

\* the forward just ended was to d, and another forward to d is still in flight
Overlaps(d) == \E req \in BagToSet(pending) : req.developer = d

---------------------------------------------------------------------------
(* Routing while forwards are in flight *)

\* a request for the events route is routed (selected and, with a target, forwarded)
RoutesEvents ==
    IF variant = "serverless"
    THEN \E u \in RandomDraws : Forward("events", NoHeader, NoWire, u, FALSE)
    ELSE SlackEvents

\* a forward in flight can end, whatever else is in flight
CanEnd == IF variant = "serverless" THEN ENABLED FetchRejected ELSE ENABLED ProxyError

\* every backend with a forward in flight has a count that the model still follows
Followed == \A req \in BagToSet(pending) : CountOf(req.developer) < ceiling

---------------------------------------------------------------------------
(* Repeated retry triples *)

\* the step is the answer of the raw interactions handler to a request with a triple
ChecksTriple == last'.route = "interactions_raw" /\ last'.wire.triple # NoTriple

\* the triple of the request was handled and is still within the window
RepeatsTriple == last'.wire.triple \in last'.wire.window

\* success is answered; nothing is selected, forwarded or reported
AnsweredAsRepeat ==
    /\ last'.op = "duplicate"
    /\ last'.status = 200
    /\ last'.developer = Null
    /\ UNCHANGED <<pending, roundRobinIndex, requestCounts, healthStatus>>

\* a backend is selected and the request is put in flight to it
SelectedAndForwarded ==
    /\ last'.op = "select"
    /\ last'.developer \in EligibleSet("slack_app")
    /\ pending' = pending (+) SetToBag({Ended(last')})

\* the request is handled like any other: refused before the selection (400),
\* answered 503 when nothing is eligible, selected and forwarded otherwise
HandledAsFirst ==
    \/ last'.op = "refuse" /\ last'.status = 400 /\ pending' = pending
    \/ /\ last'.op = "select"
       /\ EligibleSet("slack_app") = {}
       /\ last'.status = 503
       /\ pending' = pending
    \/ SelectedAndForwarded

(* C22 as stated: a request that repeats a triple handled within the      *)
(* window is answered success without selection or forward, and the first *)
(* occurrence of a triple is always selected and forwarded.               *)
C22_FirstIsAlwaysForwarded ==
    [][ChecksTriple =>
          /\ last'.wire.window \subseteq handled
          /\ IF RepeatsTriple THEN AnsweredAsRepeat ELSE SelectedAndForwarded]_vars

(* C22 amended: a request that repeats a triple handled within the window *)
(* is answered success without selection, forward or report; the first    *)
(* occurrence of a triple is never answered as a repeat: it is remembered *)
(* and handled like any request (400 for a body that does not parse, 503  *)
(* when nothing is eligible, selected and forwarded otherwise).           *)
C22_RepeatIsNotForwarded ==
    [][ChecksTriple =>
          /\ last'.wire.window \subseteq handled
          /\ IF RepeatsTriple
             THEN AnsweredAsRepeat
             ELSE HandledAsFirst /\ last'.wire.triple \in handled']_vars

\* a repeat was answered while the forward of the first occurrence was in flight
C22_Witness ==
    /\ last.op = "duplicate"
    /\ last.wire.triple \in handled
    /\ pending # EmptyBag

---------------------------------------------------------------------------
(* The request sent to the backend *)

\* the last step put a request on the wire to a backend
Sent == last.op = "select" /\ last.status = 0 /\ last.wire.inbound # NoMessage

(* C23: the body sent to the backend is the inbound body byte for byte,   *)
(* never a parsed and re-serialized copy, and the request sent keeps the  *)
(* inbound method and the signature and timestamp headers, for every      *)
(* inbound body.                                                          *)
C23_BodyIsSentVerbatim ==
    Sent =>
        /\ last.wire.outbound.body = last.wire.inbound.body
        /\ last.wire.outbound.method = last.wire.inbound.method
        /\ last.wire.outbound.headers = last.wire.inbound.headers

---------------------------------------------------------------------------
(* The relay server *)

\* the developer a relayed request names: header first, then ?dev=, then
\* x-slack-developer, then the default developer
NamedDeveloper ==
    OrName(last.named.header,
           OrName(last.named.query, OrName(last.named.slack, defaultDeveloper)))

\* the last step relayed a request to the given URL
RelayedTo(url) ==
    /\ last.status = 0
    /\ last.named.target = url
    /\ BagIn([developer |-> last.developer, handler |-> "proxy"], pending)

(* C24: the relay server forwards a request to the URL of the developer it *)
(* names (X-Developer-ID before ?dev=) when that developer has an endpoint *)
(* for the route's service; a request naming an unknown developer, or one  *)
(* without that service, goes to the default developer's URL for the       *)
(* service, and 502 is answered only when the default has none either.     *)
C24_RelayFallsBackToDefault ==
    last.op = "relay" =>
        LET service == RouteService(last.route)
        IN  /\ last.developer = NamedDeveloper
            /\ last.named.header # "" => last.developer = last.named.header
            /\ IF Configured(NamedDeveloper, service)
               THEN RelayedTo(Url(NamedDeveloper, service))
               ELSE IF Configured(defaultDeveloper, service)
                    THEN RelayedTo(Url(defaultDeveloper, service))
                    ELSE last.status = 502 /\ last.named.target \in {Null, ""}

\* a request naming a stranger in the header and a registered developer in the
\* query was relayed to the default developer
C24_Witness ==
    /\ last.op = "relay"
    /\ last.named.header = Stranger
    /\ last.named.query \in Names(developers) \ {defaultDeveloper}
    /\ last.status = 0
    /\ last.named.target = Url(defaultDeveloper, RouteService(last.route))

---------------------------------------------------------------------------
(* The rotation cursor *)

\* the eligible set of a service in the registry's order
EligibleList(service) ==
    LET Eligible(d) == d \in EligibleSet(service)
    IN  SelectSeq([i \in 1..Len(developers) |-> developers[i].name], Eligible)

\* the step is a selection under round_robin
SelectsRoundRobin == last'.op = "select" /\ strategy = "round_robin"

\* the cursor the last selection of the run started from
LastCursor == rrRun.picks[Len(rrRun.picks)].index

(* C25: there is one rotation cursor for all services: every round-robin  *)
(* selection with a non-empty eligible list E, whichever service it is    *)
(* for, returns E[cursor mod |E|] and sets the cursor to                  *)
(* (cursor + 1) mod |E|, so a selection for one service moves the cursor  *)
(* that the next selection for another service starts from.               *)
C25_OneCursorForAllServices ==
    [][SelectsRoundRobin =>
          LET E == EligibleList(RouteService(last'.route))
          IN  IF E = <<>>
              THEN last'.developer = Null /\ roundRobinIndex' = roundRobinIndex
              ELSE /\ last'.developer = E[(roundRobinIndex % Len(E)) + 1]
                   /\ roundRobinIndex' = (roundRobinIndex + 1) % Len(E)]_vars

\* a selection for slack_oauth (one eligible backend) started from the cursor 1 that a
\* selection for slack_app had left
C25_Witness ==
    /\ Selected
    /\ LastService = "slack_oauth"
    /\ rrRun.picks # <<>>
    /\ LastCursor = 1
    /\ roundRobinIndex = 0

(* C26: the cursor is applied modulo the size of the current eligible     *)
(* set: after any history of failures, resets and selections for services *)
(* with eligible sets of different sizes, a round-robin selection with    *)
(* non-empty E returns a member of E and leaves 0 <= cursor < |E|.        *)
C26_CursorStaysInRange ==
    (last.op = "select" /\ strategy = "round_robin" /\ EligibleSet(LastService) # {}) =>
        /\ last.developer \in EligibleSet(LastService)
        /\ roundRobinIndex >= 0
        /\ roundRobinIndex < Cardinality(EligibleSet(LastService))

\* a backend became unhealthy between two selections: the cursor it left (1) is
\* outside the list that remains, and the selection still returns its member
C26_Witness ==
    /\ Selected
    /\ LastService = "slack_app"
    /\ \E d \in Names(developers) : Unhealthy(d) /\ Configured(d, "slack_app")
    /\ Cardinality(EligibleSet("slack_app")) = 1
    /\ rrRun.picks # <<>>
    /\ LastCursor = 1

---------------------------------------------------------------------------
(* What changes the health state *)

\* the health state of a backend: healthy unless it is marked unhealthy
HealthOf(d) == IF Unhealthy(d) THEN "unhealthy" ELSE "healthy"

\* the step is the report of the outcome of a forward to d
ReportsOutcomeOf(d) == last'.op \in {"success", "failure"} /\ last'.developer = d

\* the step answers a request without ending a forward: a selection (a 503 among
\* them), a request refused before the selection, a read of the status endpoints
RoutesOrInspects == last'.op \in {"select", "refuse", "duplicate", "relay", "inspect"}

(* C27: the health state of a backend changes only through the outcome    *)
(* report of a forward to that backend or through the administrative      *)
(* reset: a selection under any strategy, a 503 answer and the GET        *)
(* /health and GET /load-balancer endpoints leave the health state of     *)
(* every backend unchanged, and the outcome of a forward to a backend     *)
(* leaves the health of every other backend unchanged.                    *)
C27_HealthChangesOnlyByReport ==
    [][/\ RoutesOrInspects => healthStatus' = healthStatus
       /\ \A d \in Names(developers) :
             HealthOf(d)' # HealthOf(d) => ReportsOutcomeOf(d) \/ last'.op = "reset"]_vars

\* a forward to one backend failed while another backend was marked unhealthy, and
\* the status endpoint was read afterwards
C27_Witness ==
    /\ last.op = "inspect"
    /\ \E d \in Names(developers) : Unhealthy(d)
    /\ \E d \in Names(developers) : d \in DOMAIN healthStatus /\ ~Unhealthy(d)

---------------------------------------------------------------------------
(* Backends without a health entry *)

\* the members of the list the strategies select from
Available(service) ==
    {availableDevelopers(developers, service)[i] :
        i \in 1..Len(availableDevelopers(developers, service))}

\* no outcome has been recorded in the health map for d
NeverSeen(d) == d \notin DOMAIN healthStatus

(* C28: a backend for which no forward outcome has been reported counts   *)
(* as healthy: it is in the list of every service it has an endpoint for, *)
(* and in the initial state every backend with an endpoint for a service  *)
(* is in the list of that service.                                        *)
C28_NeverSeenIsEligible ==
    /\ \A service \in Services, d \in Names(developers) :
          (NeverSeen(d) /\ Configured(d, service)) => d \in Available(service)
    /\ last.op = "start" =>
          /\ healthStatus = << >>
          /\ \A service \in Services :
                Available(service) = {d \in Names(developers) : Configured(d, service)}
    /\ (Selected /\ EligibleSet(LastService) # {}) => last.developer \in Available(LastService)

\* a backend without a health entry was selected while another one had an entry
C28_Witness ==
    /\ Selected
    /\ NeverSeen(last.developer)
    /\ healthStatus # << >>

---------------------------------------------------------------------------
(* Sticky selections, keyed and not *)

\* the step is a selection by LoadBalancer.sticky
SelectsSticky == variant # "serverless" /\ strategy = "sticky" /\ last'.op = "select"

\* the hash of a key as a non-negative integer, reduced modulo n
HashIndex(key, n) == IF Hash(key) >= 0 THEN Hash(key) % n ELSE AbsMod(Hash(key), n)

(* C29: under the sticky strategy a selection without an affinity key is  *)
(* a round-robin selection (same result, same cursor advance); with a key *)
(* it returns E[hash(key) mod |E|], the hash taken non-negative, and      *)
(* leaves the cursor unchanged.                                           *)
C29_StickyFallsBackOrHashes ==
    [][SelectsSticky =>
          LET E == EligibleList(RouteService(last'.route))
              key == last'.sessionId
          IN  IF E = <<>>
              THEN last'.developer = Null /\ roundRobinIndex' = roundRobinIndex
              ELSE IF key = NoHeader
                   THEN /\ last'.developer = E[(roundRobinIndex % Len(E)) + 1]
                        /\ roundRobinIndex' = (roundRobinIndex + 1) % Len(E)
                   ELSE /\ last'.developer = E[HashIndex(key, Len(E)) + 1]
                        /\ roundRobinIndex' = roundRobinIndex]_vars

\* a keyed selection over two eligible backends left the cursor where a selection
\* without a key had put it
C29_Witness ==
    /\ variant # "serverless"
    /\ strategy = "sticky"
    /\ Selected
    /\ last.sessionId # NoHeader
    /\ Cardinality(EligibleSet(LastService)) = 2
    /\ roundRobinIndex = 1

---------------------------------------------------------------------------
(* Weighted selections *)

\* the weights the strategy is configured with
ConfiguredWeights == [alice |-> 3, bob |-> 3, charlie |-> 4]

\* the weight of a backend: 1 when none is configured
Weight(d) == IF d \in DOMAIN ConfiguredWeights THEN ConfiguredWeights[d] ELSE 1

\* the sum of the weights of the first i members of E
RECURSIVE Cumulative(_, _)
Cumulative(E, i) == IF i = 0 THEN 0 ELSE Cumulative(E, i - 1) + Weight(E[i])

\* the draw u / RandomGrain of Math.random(), times the total weight of E, lies in
\* the interval of the i-th member: above the sum before it, up to the sum with it;
\* the draw 0 lies in the first interval
InInterval(E, i, u) ==
    LET total == Cumulative(E, Len(E))
    IN  IF u = 0
        THEN i = 1
        ELSE /\ RandomGrain * Cumulative(E, i - 1) < u * total
             /\ u * total <= RandomGrain * Cumulative(E, i)

\* the member of E whose interval contains the draw
IntervalMember(E, u) == E[CHOOSE i \in 1..Len(E) : InInterval(E, i, u)]

RunsWeighted == strategy = "weighted" /\ variant # "serverless"

(* C30: under the weighted strategy with non-empty E, for every draw in   *)
(* [0, totalWeight) the selection returns the member of E whose           *)
(* cumulative-weight interval contains the draw (a draw on the boundary   *)
(* of two intervals belongs to the earlier one), a backend without a      *)
(* configured weight taking weight 1; the result is always in E and every *)
(* member of E is returned for some draw.                                 *)
C30_WeightedFollowsIntervals ==
    RunsWeighted =>
        /\ \A service \in Services :
              LET E == EligibleList(service)
                  Result(u) == weighted(developers, service, roundRobinIndex, u).developer
              IN  E # <<>> =>
                     /\ \A u \in RandomDraws :
                           /\ \E i \in 1..Len(E) : InInterval(E, i, u)
                           /\ Result(u) = IntervalMember(E, u)
                           /\ Result(u) \in EligibleSet(service)
                     /\ \A d \in EligibleSet(service) : \E u \in RandomDraws : Result(u) = d
        /\ Selected => last.developer \in EligibleSet(LastService)

\* a backend without a configured weight was selected next to a weighted one
C30_Witness ==
    /\ RunsWeighted
    /\ Selected
    /\ last.developer \notin DOMAIN ConfiguredWeights
    /\ Cardinality(EligibleSet(LastService)) >= 2

---------------------------------------------------------------------------
(* Unhealthy backends with nothing in flight *)

\* the forwards in flight to d
InFlightTo(d) == {req \in BagToSet(pending) : req.developer = d}

\* d is marked unhealthy and no forward to it is in flight
Demoted(d) == Unhealthy(d) /\ InFlightTo(d) = {}

(* C31: once a backend is marked unhealthy and no forward to it is in     *)
(* flight, every step other than POST /reset-health leaves it so: it is   *)
(* not selected, no forward to it is started, no success is reported for  *)
(* it and it stays unhealthy; the serverless build has no reset, so there *)
(* it stays unhealthy for good.                                           *)
C31_UnhealthyStaysUntilReset ==
    [][/\ \A d \in Names(developers) :
             (Demoted(d) /\ last'.op # "reset") =>
                 /\ Demoted(d)'
                 /\ ~(last'.op = "select" /\ last'.developer = d)
                 /\ ~SucceedsFor(d)
       /\ variant = "serverless" => last'.op # "reset"]_vars

\* a forward to another backend succeeded while a backend with an endpoint for the
\* same service was unhealthy with nothing in flight
C31_Witness ==
    \E d \in Names(developers) :
        /\ Demoted(d)
        /\ last.op = "success"
        /\ last.developer # d
        /\ Configured(d, "slack_app")
        /\ Configured(last.developer, "slack_app")

---------------------------------------------------------------------------
(* Health under overlapping forwards *)

\* what the step that has just been taken says about the health of d: the outcome of
\* a forward to d that has completed, a reset, or nothing
OutcomeFor(d) ==
    CASE last'.op = "success" /\ last'.developer = d -> "healthy"
      [] last'.op = "failure" /\ last'.developer = d -> "unhealthy"
      [] last'.op = "reset" -> "healthy"
      [] OTHER -> HealthOf(d)

(* C32: with several forwards to the same backend in flight, the health   *)
(* state of the backend always equals the outcome of the forward to it    *)
(* that completed most recently, or healthy when a reset came after it:   *)
(* every completion of a forward to d sets the health of d to its         *)
(* outcome, a reset sets it to healthy, and nothing else changes it.      *)
C32_HealthFollowsLastOutcome ==
    [][\A d \in Names(developers) : HealthOf(d)' = OutcomeFor(d)]_vars

---------------------------------------------------------------------------
(* Round robin over several services *)

\* the last step is a selection for the service
SelectedFor(service) == last.op = "select" /\ LastService = service

\* the last step is a selection for the service that returned d
Returned(service, d) == SelectedFor(service) /\ last.developer = d

\* the backends that are marked unhealthy
UnhealthySet == {d \in Names(developers) : Unhealthy(d)}

(* C33: under round_robin, with selections for several services taking    *)
(* turns on the shared cursor, no eligible backend is starved: when the    *)
(* eligible sets stay the same from some point on and service S is         *)
(* selected again and again, every backend eligible for S is returned by   *)
(* a selection for S again and again.                                      *)
C33_NoEligibleBackendIsStarved ==
    \A service \in Services, d \in LiveNames, U \in SUBSET LiveNames :
        ( /\ <>[](UnhealthySet = U /\ d \in EligibleSet(service))
          /\ []<>SelectedFor(service) )
            => []<>Returned(service, d)

---------------------------------------------------------------------------
(* Balance of least connections *)

\* the number of forwards in flight to d
InFlightCount(d) == BagCardinality([req \in InFlightTo(d) |-> CopiesIn(req, pending)])

\* the requests assigned to d, in flight or completed, while every forward has
\* succeeded: each completed one has been counted once
Assigned(d) == InFlightCount(d) + Requests(d)

(* C34: under least_connections, with every backend healthy and every     *)
(* forward so far succeeding, for any interleaving of concurrent requests  *)
(* the numbers of requests assigned (in flight plus completed) to any two  *)
(* backends eligible for the same service never differ by more than one.   *)
C34_AssignedWithinOne ==
    (strategy = "least_connections" /\ ~everFailed /\ UnhealthySet = {}) =>
        \A service \in Services : \A d, e \in EligibleSet(service) :
            Assigned(d) - Assigned(e) <= 1

---------------------------------------------------------------------------
(* One response for every request *)

\* the forward of the handler to the backend
ForwardOf(dev, handler) == [developer |-> dev, handler |-> handler]

\* the step hands a request to a backend: its response is still to come
HandsOver == last'.op = "select" /\ last'.status = 0

\* the step answers a request without a forward
AnswersAtOnce ==
    \/ last'.op = "select" /\ last'.status # 0
    \/ last'.op \in {"refuse", "duplicate"}

\* the step answers the request whose forward it ends
AnswersForward == last'.op \in {"success", "failure"}

\* the step ends a forward of the handler to the backend
EndsOne(dev, handler) ==
    /\ AnswersForward
    /\ Ended(last') = ForwardOf(dev, handler)
    /\ EndsForward

\* each step answers at most one request, and each request is answered by one step:
\* at once, or by the step that ends its forward, with a status of the given set
OneResponse(atOnce) ==
    /\ HandsOver => pending' = pending (+) SetToBag({Ended(last')})
    /\ AnswersAtOnce => pending' = pending /\ last'.status \in atOnce
    /\ AnswersForward => EndsForward /\ last'.status \in UpstreamStatuses \cup {502, 504}
    /\ ~(HandsOver \/ AnswersForward) => pending' = pending

\* no forward stays in flight for ever: again and again none of its kind is in flight,
\* or again and again one of its kind ends
EveryForwardEnds ==
    \A dev \in LiveNames, handler \in Handlers :
        \/ []<>(~BagIn(ForwardOf(dev, handler), pending))
        \/ []<><<EndsOne(dev, handler)>>_vars

---------------------------------------------------------------------------
(* Strategy names without a case in the selector *)

\* the strategy names the selector of the build has a case for
Implemented ==
    IF variant = "serverless"
    THEN {"round_robin", "least_connections", "random"}
    ELSE {"round_robin", "least_connections", "random", "weighted", "sticky"}

\* the step is a selection under a configured name the selector has no case for
SelectsByDefault == last'.op = "select" /\ strategy \notin Implemented

(* C36: a configured strategy name that the selector does not implement   *)
(* is handled exactly as round_robin: the selection returns               *)
(* E[cursor mod |E|] and advances the shared cursor, whatever affinity    *)
(* key the request has; in the serverless selector this includes weighted *)
(* and sticky.                                                            *)
C36_UnknownStrategyIsRoundRobin ==
    [][SelectsByDefault =>
          LET E == EligibleList(RouteService(last'.route))
          IN  IF E = <<>>
              THEN last'.developer = Null /\ roundRobinIndex' = roundRobinIndex
              ELSE /\ last'.developer = E[(roundRobinIndex % Len(E)) + 1]
                   /\ roundRobinIndex' = (roundRobinIndex + 1) % Len(E)]_vars

\* under a sticky configuration the serverless selector returned, for a request with
\* an affinity key, a backend other than the one the key hashes to
C36_Witness ==
    /\ variant = "serverless"
    /\ strategy = "sticky"
    /\ Selected
    /\ last.sessionId # NoHeader
    /\ Len(EligibleList(LastService)) = 2
    /\ last.developer # EligibleList(LastService)[HashIndex(last.sessionId, 2) + 1]

---------------------------------------------------------------------------
(* The target of a selected backend *)

\* a registered backend has the empty string as its URL for the service
EmptyEndpoint(service) ==
    \E i \in 1..Len(developers) :
        /\ service \in DOMAIN developers[i].config
        /\ developers[i].config[service] = ""

(* C37: whenever a selection for a service returns a backend, the target  *)
(* URL of that backend for the service is a non-empty URL, so a selection *)
(* is never answered 502 for a missing target: it is answered 503 without *)
(* a backend and forwarded otherwise.                                     *)
C37_SelectedHasTarget ==
    last.op = "select" =>
        /\ last.status # 502
        /\ last.developer = Null => last.status = 503
        /\ last.developer # Null =>
              /\ getTargetUrl(developers, last.developer, LastService) \notin {Null, ""}
              /\ getTargetUrl(developers, last.developer, LastService) =
                    Url(last.developer, LastService)
              /\ last.status = 0

\* a request was forwarded for a service for which another registered backend has
\* an empty URL
C37_Witness ==
    /\ Selected
    /\ last.status = 0
    /\ EmptyEndpoint(LastService)
    /\ BagIn(Ended(last), pending)

====
